---------------------------- MODULE Spec2Model ----------------------------
(***************************************************************************)
(* ADHDaily backend: the user-scoped task API of main.py (SQLite through   *)
(* SQLAlchemy) and the focus selection of routes/tasks.py.                 *)
(*                                                                         *)
(* Spec       every handler of main.py as one atomic step on the database. *)
(* SpecHist   Spec, recording the task ids assigned and deleted so far.    *)
(* SpecList   one caller and longer task lists.                            *)
(* SpecScope  two callers creating, completing and listing tasks.          *)
(* SpecCreate create_task over every request body.                         *)
(* SpecAuth   register, login and identity resolution over every token.    *)
(* SpecConc   requests of main.py interleaved at their database statements.*)
(* SpecRace   complete and delete requests interleaved at their statements. *)
(* SpecFocus  the routes/tasks.py handlers over their own tasks table.     *)
(* SpecBulk   the bulk pending query of routes/tasks.py.                    *)
(***************************************************************************)
EXTENDS Integers, Sequences, FiniteSets, TLC

VARIABLES
    users,      \* main.py users table: id -> row
    tasks,      \* main.py tasks table: id -> row
    now,        \* latest reading of datetime.utcnow()
    last,       \* the request handled last and its response
    hist,       \* SpecHist: the task ids ever assigned and ever deleted
    reqs,       \* SpecConc: the requests in flight, each with its position
    rtasks,     \* routes/tasks.py tasks table: id -> row
    rseq,       \* routes/tasks.py: last value of the id sequence
    rlast,      \* routes/tasks.py: the request handled last and its response
    cred,       \* SpecAuth: the token the request handled last came with
    issued      \* SpecAuth: the tokens login has returned, each with its user

vars == <<users, tasks, now, last, hist, reqs, rtasks, rseq, rlast, cred, issued>>

-----------------------------------------------------------------------------
(* Bounds of the model *)

MaxId == 2          \* Spec, SpecCreate: rowids handed out stay within 1..MaxId
MaxListId == 4      \* SpecList: rowids handed out stay within 1..MaxListId
MaxScopeId == 3     \* SpecScope: rowids handed out stay within 1..MaxScopeId
MaxTime == 1        \* clock readings stay within 0..MaxTime
MaxReqs == 3        \* SpecConc: requests handled side by side
MaxFocusId == 4     \* SpecFocus: ids handed out stay within 1..MaxFocusId
MaxRace == 2        \* SpecRace: complete/delete requests handled side by side
MaxVaried == 2      \* SpecBulk: the rows of id 1..MaxVaried vary in their fields

-----------------------------------------------------------------------------
(* Helpers *)

Max(S) == CHOOSE x \in S : \A y \in S : y <= x

Min2(a, b) == IF a <= b THEN a ELSE b

EmptyTable == [i \in {} |-> 0]

Rows(table) == {table[i] : i \in DOMAIN table}

\* str(n) and int(s) of Python on the tokens the model uses
Digits == <<"0", "1", "2", "3", "4", "5", "6", "7", "8", "9">>

str(n) == Digits[n + 1]

IsInt(s) == \E n \in 0..9 : str(n) = s

int(s) == CHOOSE n \in 0..9 : str(n) = s

\* Optional[str] of the bearer token: None, or a string
None == [present |-> FALSE, value |-> ""]

Some(s) == [present |-> TRUE, value |-> s]

\* Python truthiness of Optional[str]: None and "" are falsy
Truthy(token) == token.present /\ token.value # ""

-----------------------------------------------------------------------------
(* main.py: tables *)

\* INTEGER PRIMARY KEY of SQLite without AUTOINCREMENT: one more than the
\* largest rowid in use, 1 for an empty table
NextRowid(table) == IF DOMAIN table = {} THEN 1 ELSE Max(DOMAIN table) + 1

demo_email == "demo@adhdaily.local"

hash_password(password) == <<"sha256", password>>

User(id, email, password) ==
    [id |-> id, email |-> email, hashed_password |-> hash_password(password)]

\* db.query(User).filter(User.email == email).first(): the ids found (at most
\* one, email being unique)
UserByEmail(us, email) == {i \in DOMAIN us : us[i].email = email}

\* db.add(user); db.commit(); db.refresh(user)
InsertUser(us, email, password) ==
    LET id == NextRowid(us) IN us @@ (id :> User(id, email, password))

-----------------------------------------------------------------------------
(* main.py: identity resolution *)

Ok(uid, us) == [code |-> 200, uid |-> uid, users |-> us]

Unauthorized(us) == [code |-> 401, uid |-> 0, users |-> us]

get_user_from_token(us, token) ==
    IF ~IsInt(token) THEN Unauthorized(us)
    ELSE IF int(token) \notin DOMAIN us THEN Unauthorized(us)
    ELSE Ok(int(token), us)

get_current_or_demo_user(us, token) ==
    IF Truthy(token) THEN get_user_from_token(us, token.value)
    ELSE IF UserByEmail(us, demo_email) # {}
         THEN Ok(CHOOSE i \in UserByEmail(us, demo_email) : TRUE, us)
         ELSE Ok(NextRowid(us), InsertUser(us, demo_email, "demo"))

-----------------------------------------------------------------------------
(* main.py: schemas *)

Sizes == {"tiny", "medium", "big"}

\* TaskBase: title is required, every other field has a default; fields the
\* schema does not name are ignored
TaskBaseValid(body) == "title" \in DOMAIN body

Field(body, name, default) == IF name \in DOMAIN body THEN body[name] ELSE default

TaskBase(body) ==
    [title      |-> body.title,
     size       |-> Field(body, "size", "tiny"),
     category   |-> Field(body, "category", "general"),
     importance |-> Field(body, "importance", 1),
     is_routine |-> Field(body, "is_routine", FALSE),
     recurrence |-> Field(body, "recurrence", None)]

\* Task(...) of create_task. created_at and updated_at each take their column
\* default on INSERT, datetime.utcnow called once per column: created at t,
\* updated at u
NewTask(id, payload, uid, t, u) ==
    [id         |-> id,
     title      |-> payload.title,
     size       |-> payload.size,
     category   |-> payload.category,
     importance |-> payload.importance,
     is_routine |-> payload.is_routine,
     recurrence |-> payload.recurrence,
     status     |-> "pending",
     user_id    |-> uid,
     created_at |-> t,
     updated_at |-> u]

\* Faulty variant of TaskOf: the lookup by task id alone
TaskOfAnyOwner(ts, task_id, uid) == {i \in DOMAIN ts : i = task_id}

\* db.query(Task).filter(Task.id == task_id, Task.user_id == uid).first()
TaskOf(ts, task_id, uid) ==
    {i \in DOMAIN ts : i = task_id /\ ts[i].user_id = uid}

\* Faulty variant of Completed: completing a completed task reopens it
CompletedToggle(task, t) ==
    [task EXCEPT !.status = IF @ = "completed" THEN "pending" ELSE "completed",
                 !.updated_at = t]

\* Faulty variant of Completed: the status is set, updated_at is left alone
CompletedNoStamp(task, t) == [task EXCEPT !.status = "completed"]

\* Faulty variant of Completed: created_at is stamped as well
CompletedRestamped(task, t) ==
    [task EXCEPT !.status = "completed", !.updated_at = t, !.created_at = t]

\* task.status = "completed"; task.updated_at = datetime.utcnow()
Completed(task, t) == [task EXCEPT !.status = "completed", !.updated_at = t]

\* db.delete(task); db.commit()
DeleteRow(ts, task_id) == [i \in DOMAIN ts \ {task_id} |-> ts[i]]

\* datetime.utcnow(): a reading not before the latest one
utcnow == now .. Min2(now + 1, MaxTime)

\* The reading that follows the reading t within one statement
utcnow_after(t) == t .. Min2(t + 1, MaxTime)

\* .order_by(Task.created_at.asc()).all(): every order the sort may give
\* (rows of equal key come in any order)
RECURSIVE order_by_created_at_asc(_)
order_by_created_at_asc(S) ==
    IF S = {} THEN {<<>>}
    ELSE UNION {{<<m>> \o s : s \in order_by_created_at_asc(S \ {m})} :
                m \in {x \in S : \A y \in S : x.created_at <= y.created_at}}

\* .order_by(Task.updated_at.desc()).all()
RECURSIVE order_by_updated_at_desc(_)
order_by_updated_at_desc(S) ==
    IF S = {} THEN {<<>>}
    ELSE UNION {{<<m>> \o s : s \in order_by_updated_at_desc(S \ {m})} :
                m \in {x \in S : \A y \in S : x.updated_at >= y.updated_at}}

\* .filter(Task.user_id == uid, Task.status == status)
TasksWithStatus(ts, uid, status) ==
    {r \in Rows(ts) : r.user_id = uid /\ r.status = status}

\* Faulty variant of PendingListing: the listing cut to its first three rows
PendingListingTop3(ts, uid) ==
    {SubSeq(s, 1, Min2(3, Len(s))) :
        s \in order_by_created_at_asc(TasksWithStatus(ts, uid, "pending"))}

\* The query of get_focus_tasks
PendingListing(ts, uid) ==
    order_by_created_at_asc(TasksWithStatus(ts, uid, "pending"))

\* Faulty variant of CompletedListing: ordered by created_at ascending
CompletedListingByCreated(ts, uid) ==
    order_by_created_at_asc(TasksWithStatus(ts, uid, "completed"))

\* The query of get_completed_tasks
CompletedListing(ts, uid) ==
    order_by_updated_at_desc(TasksWithStatus(ts, uid, "completed"))

-----------------------------------------------------------------------------
(* Requests and responses *)

Response(op, code, uid, id, body, pre) ==
    [op |-> op, code |-> code, uid |-> uid, id |-> id, body |-> body, pre |-> pre]

NoRequest == Response("none", 0, 0, 0, <<>>, <<>>)

\* Inputs
Emails == {"a@x"}

Passwords == {"pw"}

Tokens == {None, Some("1"), Some("2")}

TaskIds == 1..MaxId

ListIds == 1..MaxListId

ScopeTokens == {None, Some("2")}

Bodies == {[title |-> "a"], [size |-> "big"]}

AllBodies ==
    Bodies \cup
    {[title |-> "", size |-> "medium"],
     [title |-> "b", size |-> "huge"],
     [title |-> "r", is_routine |-> TRUE],
     [title |-> "c", status |-> "completed"]}

-----------------------------------------------------------------------------
(* main.py: handlers, each as one atomic step *)

register_user(email, password) ==
    /\ IF UserByEmail(users, email) # {}
       THEN /\ last' = Response("register", 400, 0, 0, <<>>, <<>>)
            /\ UNCHANGED users
       ELSE /\ users' = InsertUser(users, email, password)
            /\ last' = Response("register", 200, NextRowid(users), 0,
                                <<users'[NextRowid(users)]>>, <<>>)
    /\ UNCHANGED <<tasks, now>>

get_focus_tasks(token) ==
    LET r == get_current_or_demo_user(users, token) IN
    /\ users' = r.users
    /\ IF r.code # 200
       THEN last' = Response("focus", r.code, 0, 0, <<>>, <<>>)
       ELSE \E s \in PendingListing(tasks, r.uid) :
                last' = Response("focus", 200, r.uid, 0, s, <<>>)
    /\ UNCHANGED <<tasks, now>>

get_completed_tasks(token) ==
    LET r == get_current_or_demo_user(users, token) IN
    /\ users' = r.users
    /\ IF r.code # 200
       THEN last' = Response("completed", r.code, 0, 0, <<>>, <<>>)
       ELSE \E s \in CompletedListing(tasks, r.uid) :
                last' = Response("completed", 200, r.uid, 0, s, <<>>)
    /\ UNCHANGED <<tasks, now>>

create_task(body, token, maxid) ==
    LET r == get_current_or_demo_user(users, token)
        id == NextRowid(tasks)
    IN
    /\ users' = r.users
    /\ IF r.code # 200
       THEN /\ last' = Response("create", r.code, 0, 0, <<>>, <<>>)
            /\ UNCHANGED <<tasks, now>>
       ELSE IF ~TaskBaseValid(body)
       THEN /\ last' = Response("create", 422, r.uid, 0, <<>>, <<>>)
            /\ UNCHANGED <<tasks, now>>
       ELSE /\ id <= maxid
            /\ \E t \in utcnow : \E u \in utcnow_after(t) :
                 /\ tasks' = tasks @@ (id :> NewTask(id, TaskBase(body), r.uid, t, u))
                 /\ now' = u
            /\ last' = Response("create", 201, r.uid, id, <<tasks'[id]>>, <<>>)

complete_task(task_id, token) ==
    LET r == get_current_or_demo_user(users, token) IN
    /\ users' = r.users
    /\ IF r.code # 200
       THEN /\ last' = Response("complete", r.code, 0, task_id, <<>>, <<>>)
            /\ UNCHANGED <<tasks, now>>
       ELSE IF TaskOf(tasks, task_id, r.uid) = {}
       THEN /\ last' = Response("complete", 404, r.uid, task_id, <<>>, <<>>)
            /\ UNCHANGED <<tasks, now>>
       ELSE \E t \in utcnow :
             /\ tasks' = [tasks EXCEPT ![task_id] = Completed(@, t)]
             /\ now' = t
             /\ last' = Response("complete", 200, r.uid, task_id,
                                 <<tasks'[task_id]>>, <<tasks[task_id]>>)

delete_task(task_id, token) ==
    LET r == get_current_or_demo_user(users, token) IN
    /\ users' = r.users
    /\ IF r.code # 200
       THEN /\ last' = Response("delete", r.code, 0, task_id, <<>>, <<>>)
            /\ UNCHANGED <<tasks, now>>
       ELSE IF TaskOf(tasks, task_id, r.uid) = {}
       THEN /\ last' = Response("delete", 404, r.uid, task_id, <<>>, <<>>)
            /\ UNCHANGED <<tasks, now>>
       ELSE /\ tasks' = DeleteRow(tasks, task_id)
            /\ last' = Response("delete", 204, r.uid, task_id, <<>>, <<tasks[task_id]>>)
            /\ UNCHANGED now

-----------------------------------------------------------------------------
(* Spec: the handlers of main.py on a fresh database *)

NoHist == [assigned |-> {}, deleted |-> {}]

Init ==
    /\ users = EmptyTable
    /\ tasks = EmptyTable
    /\ now = 0
    /\ last = NoRequest
    /\ hist = NoHist
    /\ reqs = <<>>
    /\ rtasks = EmptyTable
    /\ rseq = 0
    /\ rlast = NoRequest
    /\ cred = None
    /\ issued = {}

routes == <<reqs, rtasks, rseq, rlast, cred, issued>>

Next ==
    \/ \E e \in Emails, p \in Passwords :
          register_user(e, p) /\ UNCHANGED <<hist, routes>>
    \/ \E k \in Tokens :
          get_focus_tasks(k) /\ UNCHANGED <<hist, routes>>
    \/ \E k \in Tokens :
          get_completed_tasks(k) /\ UNCHANGED <<hist, routes>>
    \/ \E b \in Bodies, k \in Tokens :
          create_task(b, k, MaxId) /\ UNCHANGED <<hist, routes>>
    \/ \E i \in TaskIds, k \in Tokens :
          complete_task(i, k) /\ UNCHANGED <<hist, routes>>
    \/ \E i \in TaskIds, k \in Tokens :
          delete_task(i, k) /\ UNCHANGED <<hist, routes>>

Spec == Init /\ [][Next]_vars

-----------------------------------------------------------------------------
(* SpecHist: Spec with the record of the ids assigned and deleted so far *)

Record ==
    hist' = [assigned |-> IF last'.op = "create" /\ last'.code = 201
                          THEN hist.assigned \cup {last'.id} ELSE hist.assigned,
             deleted  |-> IF last'.op = "delete" /\ last'.code = 204
                          THEN hist.deleted \cup {last'.id} ELSE hist.deleted]

NextHist ==
    \/ \E e \in Emails, p \in Passwords :
          register_user(e, p) /\ Record /\ UNCHANGED routes
    \/ \E b \in Bodies, k \in Tokens :
          create_task(b, k, MaxId) /\ Record /\ UNCHANGED routes
    \/ \E i \in TaskIds, k \in Tokens :
          complete_task(i, k) /\ Record /\ UNCHANGED routes
    \/ \E i \in TaskIds, k \in Tokens :
          delete_task(i, k) /\ Record /\ UNCHANGED routes

SpecHist == Init /\ [][NextHist]_vars

-----------------------------------------------------------------------------
(* SpecList: one caller without credential, up to MaxListId tasks *)

NextList ==
    \/ get_focus_tasks(None) /\ UNCHANGED <<hist, routes>>
    \/ get_completed_tasks(None) /\ UNCHANGED <<hist, routes>>
    \/ create_task([title |-> "a"], None, MaxListId) /\ UNCHANGED <<hist, routes>>
    \/ \E i \in ListIds :
          complete_task(i, None) /\ UNCHANGED <<hist, routes>>

SpecList == Init /\ [][NextList]_vars

-----------------------------------------------------------------------------
(* SpecScope: two callers, the demo identity and a registered one,         *)
(* creating, completing and listing up to MaxScopeId tasks                 *)

NextScope ==
    \/ register_user("a@x", "pw") /\ UNCHANGED <<hist, routes>>
    \/ \E k \in ScopeTokens :
          get_focus_tasks(k) /\ UNCHANGED <<hist, routes>>
    \/ \E k \in ScopeTokens :
          get_completed_tasks(k) /\ UNCHANGED <<hist, routes>>
    \/ \E k \in ScopeTokens :
          create_task([title |-> "a"], k, MaxScopeId) /\ UNCHANGED <<hist, routes>>
    \/ \E i \in DOMAIN tasks, k \in ScopeTokens :
          complete_task(i, k) /\ UNCHANGED <<hist, routes>>

SpecScope == Init /\ [][NextScope]_vars

-----------------------------------------------------------------------------
(* SpecCreate: create_task over every request body *)

NextCreate ==
    \/ \E b \in AllBodies, k \in {None, Some("x")} :
          create_task(b, k, MaxId) /\ UNCHANGED <<hist, routes>>
    \/ \E i \in TaskIds :
          complete_task(i, None) /\ UNCHANGED <<hist, routes>>
    \/ \E i \in TaskIds :
          delete_task(i, None) /\ UNCHANGED <<hist, routes>>

SpecCreate == Init /\ [][NextCreate]_vars

-----------------------------------------------------------------------------
(* SpecAuth: register, login, GET /me and GET /tasks/focus over every token *)

verify_password(password, hashed) == hash_password(password) = hashed

\* Faulty variant of access_token: the id counted from zero
access_token_from_zero(user) == str(user.id - 1)

\* access_token = str(user.id)
access_token(user) == str(user.id)

\* response_model=UserOut, of the columns the model keeps
UserOut(user) == [id |-> user.id, email |-> user.email]

\* UserOut.email is an EmailStr: the address of the demo user lies in the
\* special-use domain .local, which the email validator installed may accept
\* (200) or reject when the response is built (500)
UserOutCodes(user) == IF user.email = demo_email THEN {200, 500} ELSE {200}

\* get_current_user: no fallback, a missing or empty token is refused
get_current_user(us, token) ==
    IF ~Truthy(token) THEN Unauthorized(us)
    ELSE get_user_from_token(us, token.value)

AuthEmails == {"a@x", "b@x"}

AuthPasswords == {"pw", "no"}

AuthTokens == {None, Some(""), Some("x"), Some("1"), Some("2"), Some("3")}

login(username, password) ==
    LET found == UserByEmail(users, username) IN
    /\ IF \/ found = {}
          \/ \A i \in found : ~verify_password(password, users[i].hashed_password)
       THEN last' = Response("login", 401, 0, 0, <<>>, <<>>)
       ELSE LET user == users[CHOOSE i \in found : TRUE] IN
            last' = Response("login", 200, user.id, 0,
                             <<[access_token |-> access_token(user),
                                token_type |-> "bearer"]>>, <<>>)
    /\ UNCHANGED <<users, tasks, now>>

get_me(token) ==
    LET r == get_current_user(users, token) IN
    /\ IF r.code # 200
       THEN last' = Response("me", r.code, 0, 0, <<>>, <<>>)
       ELSE \E code \in UserOutCodes(users[r.uid]) :
              last' = Response("me", code, r.uid, 0,
                               IF code = 200 THEN <<UserOut(users[r.uid])>> ELSE <<>>,
                               <<>>)
    /\ UNCHANGED <<users, tasks, now>>

\* The record of the tokens login has handed out
Issue ==
    issued' = IF last'.op = "login" /\ last'.code = 200
              THEN issued \cup {[access_token |-> last'.body[1].access_token,
                                 id |-> last'.uid,
                                 email |-> users[last'.uid].email]}
              ELSE issued

rest == <<hist, reqs, rtasks, rseq, rlast>>

NextAuth ==
    \/ \E e \in AuthEmails :
          register_user(e, "pw") /\ cred' = None /\ Issue /\ UNCHANGED rest
    \/ \E e \in AuthEmails \cup {demo_email}, p \in AuthPasswords \cup {"demo"} :
          login(e, p) /\ cred' = None /\ Issue /\ UNCHANGED rest
    \/ \E k \in AuthTokens :
          get_me(k) /\ cred' = k /\ Issue /\ UNCHANGED rest
    \/ \E k \in AuthTokens :
          get_focus_tasks(k) /\ cred' = k /\ Issue /\ UNCHANGED rest

SpecAuth == Init /\ [][NextAuth]_vars

-----------------------------------------------------------------------------
(* Claims on identity resolution *)

ParsesAsUser(us, token) == IsInt(token.value) /\ int(token.value) \in DOMAIN us

\* C11 (as claimed): a request that comes with a token which is not the id of
\* an existing user is answered 401, is never served as the demo user, and
\* leaves the users table as it was.
C11_BadTokenRefused ==
    [][(last'.op \in {"me", "focus"} /\ cred'.present
          /\ ~ParsesAsUser(users, cred'))
         => (last'.code = 401 /\ users' = users)]_vars

\* C18: a token returned by a successful login resolves, in every later
\* state, to the user that logged in: same id, same email, by the resolution
\* of GET /auth/me and by the resolution with demo fallback alike; it is
\* never refused, and the user GET /auth/me returns is that user.
C18_LoginTokenResolves ==
    \A c \in issued :
        /\ get_user_from_token(users, c.access_token) = Ok(c.id, users)
        /\ users[c.id].email = c.email
        /\ (last.op \in {"me", "focus"} /\ cred = Some(c.access_token))
             => /\ last.code # 401
                /\ last.uid = c.id
                /\ (last.op = "me" /\ last.code = 200)
                     => last.body = <<[id |-> c.id, email |-> c.email]>>

C18_Witness ==
    /\ last.op = "me" /\ last.code = 200 /\ last.uid = 2
    /\ \E c \in issued : cred = Some(c.access_token) /\ c.id = 2
    /\ Cardinality(DOMAIN users) = 3

-----------------------------------------------------------------------------
(* SpecConc: requests of main.py running side by side (worker threads and  *)
(* worker processes on the one SQLite file), interleaved at their database *)
(* statements. A request is [kind, email, pc, uid, code].                  *)

Request(kind, email) ==
    [kind |-> kind, email |-> email, pc |-> "select", uid |-> 0, code |-> 0]

Finish(i, code, uid) ==
    reqs' = [reqs EXCEPT ![i].pc = "done", ![i].code = code, ![i].uid = uid]

\* The unique index on users.email: the INSERT of a taken email raises
\* IntegrityError, which no handler catches (500)
EmailTaken(us, email) == UserByEmail(us, email) # {}

\* A request without credential, or POST /auth/register, arrives
Arrive ==
    /\ Len(reqs) < MaxReqs
    /\ \/ reqs' = Append(reqs, Request("demo", demo_email))
       \/ \E e \in Emails \cup {demo_email} :
             reqs' = Append(reqs, Request("register", e))
    /\ UNCHANGED users

\* get_current_or_demo_user, token None: the query for the demo user
find_demo_user(i) ==
    /\ reqs[i].kind = "demo" /\ reqs[i].pc = "select"
    /\ IF UserByEmail(users, demo_email) # {}
       THEN Finish(i, 200, CHOOSE u \in UserByEmail(users, demo_email) : TRUE)
       ELSE reqs' = [reqs EXCEPT ![i].pc = "insert"]
    /\ UNCHANGED users

\* get_current_or_demo_user, token None: db.add(user); db.commit()
create_demo_user(i) ==
    /\ reqs[i].kind = "demo" /\ reqs[i].pc = "insert"
    /\ IF EmailTaken(users, demo_email)
       THEN Finish(i, 500, 0) /\ UNCHANGED users
       ELSE /\ users' = InsertUser(users, demo_email, "demo")
            /\ Finish(i, 200, NextRowid(users))

\* register_user: the query for an existing user of that email
find_existing(i) ==
    /\ reqs[i].kind = "register" /\ reqs[i].pc = "select"
    /\ IF UserByEmail(users, reqs[i].email) # {}
       THEN Finish(i, 400, 0)
       ELSE reqs' = [reqs EXCEPT ![i].pc = "insert"]
    /\ UNCHANGED users

\* register_user: db.add(user); db.commit()
insert_user(i) ==
    /\ reqs[i].kind = "register" /\ reqs[i].pc = "insert"
    /\ IF EmailTaken(users, reqs[i].email)
       THEN Finish(i, 500, 0) /\ UNCHANGED users
       ELSE /\ users' = InsertUser(users, reqs[i].email, "pw")
            /\ Finish(i, 200, NextRowid(users))

serial == <<tasks, now, last, hist, rtasks, rseq, rlast, cred, issued>>

NextConc ==
    \/ Arrive /\ UNCHANGED serial
    \/ \E i \in DOMAIN reqs : find_demo_user(i) /\ UNCHANGED serial
    \/ \E i \in DOMAIN reqs : create_demo_user(i) /\ UNCHANGED serial
    \/ \E i \in DOMAIN reqs : find_existing(i) /\ UNCHANGED serial
    \/ \E i \in DOMAIN reqs : insert_user(i) /\ UNCHANGED serial

SpecConc == Init /\ [][NextConc]_vars

-----------------------------------------------------------------------------
(* Claims on identity resolution under concurrency *)

DemoReqs == {i \in DOMAIN reqs : reqs[i].kind = "demo"}

\* C1 (as claimed): of the requests without credential that run side by side
\* while no demo identity exists, none fails, all resolve to one identity id,
\* and one demo identity record is created in total.
\* (Requests that register the demo email themselves are set aside.)
C1_DemoCreatedOnceAllSucceed ==
    (\A i \in DOMAIN reqs : reqs[i].kind = "register" => reqs[i].email # demo_email)
    => /\ Cardinality(UserByEmail(users, demo_email)) <= 1
       /\ \A i \in DemoReqs : reqs[i].pc = "done" => reqs[i].code = 200
       /\ \A i, j \in DemoReqs :
            (reqs[i].code = 200 /\ reqs[j].code = 200) => reqs[i].uid = reqs[j].uid

\* C15 (as claimed): however register requests and requests without token
\* interleave, no two users share an email, and a register request that does
\* not add its user, its email being taken, answers 400.
\* (Requests that register the demo email are set aside.)
C15_EmailsUniqueTakenIsConflict ==
    /\ \A u, v \in DOMAIN users : u # v => users[u].email # users[v].email
    /\ \A i \in DOMAIN reqs :
          (reqs[i].kind = "register" /\ reqs[i].email # demo_email
             /\ reqs[i].pc = "done" /\ reqs[i].code # 200)
            => reqs[i].code = 400

-----------------------------------------------------------------------------
(* SpecRace: complete_task and delete_task are plain def handlers, which    *)
(* FastAPI runs on worker threads, each with its own Session: requests      *)
(* interleave between the query for the task and the commit. A request is   *)
(* [kind, id, pc, uid, code, saw, gone]: saw is the row its query loaded,   *)
(* gone whether the row was missing when it came to write.                  *)

TaskRequest(kind, task_id, uid) ==
    [kind |-> kind, id |-> task_id, pc |-> "query", uid |-> uid, code |-> 0,
     saw |-> <<>>, gone |-> FALSE]

\* POST /tasks/{id}/complete or DELETE /tasks/{id} arrives without token for
\* a stored task; the demo user, owner of every task here, is found
TaskArrive ==
    /\ Len(reqs) < MaxRace
    /\ \E kind \in {"complete", "delete"}, i \in DOMAIN tasks :
          reqs' = Append(reqs, TaskRequest(kind, i,
                      get_current_or_demo_user(users, None).uid))
    /\ UNCHANGED <<users, tasks, now>>

\* db.query(Task).filter(Task.id == task_id, Task.user_id == uid).first()
\* and the 404 when there is no such task
task_query(i) ==
    /\ reqs[i].pc = "query"
    /\ IF TaskOf(tasks, reqs[i].id, reqs[i].uid) = {}
       THEN reqs' = [reqs EXCEPT ![i].pc = "done", ![i].code = 404]
       ELSE reqs' = [reqs EXCEPT ![i].pc = "write", ![i].saw = <<tasks[reqs[i].id]>>]
    /\ UNCHANGED <<users, tasks, now>>

\* The UPDATE the Session flushes: updated_at, and status when the loaded
\* row was not completed yet, WHERE tasks.id = the id of the loaded row
UpdateRow(row, loaded, t) ==
    [row EXCEPT !.status = IF loaded.status = "completed" THEN @ ELSE "completed",
                !.updated_at = t]

\* complete_task: task.status = ...; task.updated_at = ...; db.commit().
\* An UPDATE that matches no row raises StaleDataError (500).
complete_task_commit(i) ==
    /\ reqs[i].kind = "complete" /\ reqs[i].pc = "write"
    /\ IF reqs[i].id \in DOMAIN tasks
       THEN \E t \in utcnow :
              /\ tasks' = [tasks EXCEPT ![reqs[i].id] = UpdateRow(@, reqs[i].saw[1], t)]
              /\ now' = t
              /\ reqs' = [reqs EXCEPT ![i].pc = "done", ![i].code = 200]
       ELSE /\ reqs' = [reqs EXCEPT ![i].pc = "done", ![i].code = 500,
                                    ![i].gone = TRUE]
            /\ UNCHANGED <<tasks, now>>
    /\ UNCHANGED users

\* delete_task: db.delete(task); db.commit(). A DELETE that matches no row
\* is a warning (204) or StaleDataError (500), by the SQLAlchemy installed.
delete_task_commit(i) ==
    /\ reqs[i].kind = "delete" /\ reqs[i].pc = "write"
    /\ IF reqs[i].id \in DOMAIN tasks
       THEN /\ tasks' = DeleteRow(tasks, reqs[i].id)
            /\ reqs' = [reqs EXCEPT ![i].pc = "done", ![i].code = 204]
       ELSE /\ \E code \in {204, 500} :
                 reqs' = [reqs EXCEPT ![i].pc = "done", ![i].code = code,
                                      ![i].gone = TRUE]
            /\ UNCHANGED tasks
    /\ UNCHANGED <<users, now>>

others == <<hist, rtasks, rseq, rlast, cred, issued>>

NextRace ==
    \/ create_task([title |-> "a"], None, MaxId) /\ UNCHANGED <<reqs, others>>
    \/ TaskArrive /\ UNCHANGED <<last, others>>
    \/ \E i \in DOMAIN reqs : task_query(i) /\ UNCHANGED <<last, others>>
    \/ \E i \in DOMAIN reqs : complete_task_commit(i) /\ UNCHANGED <<last, others>>
    \/ \E i \in DOMAIN reqs : delete_task_commit(i) /\ UNCHANGED <<last, others>>

SpecRace == Init /\ [][NextRace]_vars

\* C12 (as claimed): complete and delete run their lookup and their write as
\* one step: no two requests on one task id have both found the task while
\* neither has written yet, and a request that comes to write a task which
\* is gone by then answers 404, so that of two deletes of one task run side
\* by side one answers 204 and the other 404.
C12_LookupAndWriteAtomic ==
    /\ \A i, j \in DOMAIN reqs :
          (i # j /\ reqs[i].id = reqs[j].id)
            => ~(reqs[i].pc = "write" /\ reqs[j].pc = "write")
    /\ \A i \in DOMAIN reqs :
          (reqs[i].pc = "done" /\ reqs[i].gone) => reqs[i].code = 404

-----------------------------------------------------------------------------
(* routes/tasks.py: the handlers over their own tasks table *)

\* models.TaskSize
TaskSize == {"tiny", "medium", "big"}

\* models.TaskCreate: size must be a TaskSize
TaskCreateValid(task_in) == task_in.size \in TaskSize

\* Optional[int] importance and Optional[date] due_date (a day number):
\* NULL, or a value
Null == [present |-> FALSE, value |-> 0]

NotNull(n) == [present |-> TRUE, value |-> n]

\* The row INSERT ... RETURNING gives back, status 'pending'
RoutesRow(id, task_in) ==
    [id |-> id, title |-> task_in.title, size |-> task_in.size,
     category |-> Field(task_in, "category", None),
     importance |-> Field(task_in, "importance", Null),
     due_date |-> Field(task_in, "due_date", Null),
     status |-> "pending"]

\* SELECT ... FROM tasks WHERE status = 'pending'
PendingRows(ts) == {r \in Rows(ts) : r.status = "pending"}

\* random.shuffle(remaining): every arrangement of the rows
RECURSIVE shuffle(_)
shuffle(S) ==
    IF S = {} THEN {<<>>}
    ELSE UNION {{<<m>> \o s : s \in shuffle(S \ {m})} : m \in S}

\* random.choice(bucket) appended to selected when the bucket is not empty
choice(bucket) == IF bucket = {} THEN {<<>>} ELSE {<<t>> : t \in bucket}

Range(s) == {s[n] : n \in DOMAIN s}

\* Faulty variant of remaining: the rows already selected are not left out
remainingAll(all_tasks, selected) == all_tasks

\* remaining = [t for t in all_tasks if t not in selected]
remaining(all_tasks, selected) == {t \in all_tasks : t \notin Range(selected)}

\* Faulty variant of fill: the selection is not filled up
fillNothing(all_tasks, selected) == {selected}

\* selected.extend(remaining[:needed]) when len(selected) < 3
fill(all_tasks, selected) ==
    IF Len(selected) < 3
    THEN {selected \o SubSeq(s, 1, Min2(3 - Len(selected), Len(s))) :
            s \in shuffle(remaining(all_tasks, selected))}
    ELSE {selected}

\* Every list get_random_focus_tasks may return over the pending rows
focus_selections(all_tasks) ==
    LET tiny_tasks   == {t \in all_tasks : t.size = "tiny"}
        medium_tasks == {t \in all_tasks : t.size = "medium"}
        big_tasks    == {t \in all_tasks : t.size = "big"}
    IN UNION {fill(all_tasks, a \o b \o c) :
                a \in choice(tiny_tasks), b \in choice(medium_tasks),
                c \in choice(big_tasks)}

RoutesResponse(op, code, id, body) ==
    [op |-> op, code |-> code, uid |-> 0, id |-> id, body |-> body, pre |-> <<>>]

TaskIns == {[title |-> "t", size |-> z] : z \in TaskSize \cup {"huge"}}

FocusIds == 1..MaxFocusId

routes_create_task(task_in, maxid) ==
    IF ~TaskCreateValid(task_in)
    THEN /\ rlast' = RoutesResponse("create", 422, 0, <<>>)
         /\ UNCHANGED <<rtasks, rseq>>
    ELSE /\ rseq < maxid
         /\ rseq' = rseq + 1
         /\ rtasks' = rtasks @@ (rseq' :> RoutesRow(rseq', task_in))
         /\ rlast' = RoutesResponse("create", 200, rseq', <<rtasks'[rseq']>>)

routes_complete_task(task_id) ==
    IF task_id \notin DOMAIN rtasks
    THEN /\ rlast' = RoutesResponse("complete", 404, task_id, <<>>)
         /\ UNCHANGED <<rtasks, rseq>>
    ELSE /\ rtasks' = [rtasks EXCEPT ![task_id].status = "completed"]
         /\ rlast' = RoutesResponse("complete", 200, task_id, <<rtasks'[task_id]>>)
         /\ UNCHANGED rseq

get_random_focus_tasks ==
    /\ \E selected \in focus_selections(PendingRows(rtasks)) :
          rlast' = RoutesResponse("random", 200, 0, selected)
    /\ UNCHANGED <<rtasks, rseq>>

main == <<users, tasks, now, last, hist, reqs, cred, issued>>

NextFocus ==
    \/ \E task_in \in TaskIns :
          routes_create_task(task_in, MaxFocusId) /\ UNCHANGED main
    \/ \E i \in FocusIds : routes_complete_task(i) /\ UNCHANGED main
    \/ get_random_focus_tasks /\ UNCHANGED main

SpecFocus == Init /\ [][NextFocus]_vars

-----------------------------------------------------------------------------
(* Claims on the focus selection *)

OfSize(s, z) == {n \in DOMAIN s : s[n].size = z}

\* C6: get_random_focus_tasks returns at most 3 tasks, no task id twice, and
\* exactly one task of each size whenever each of tiny, medium and big has a
\* pending task, whatever the random draws.
C6_FocusSelection ==
    (rlast.op = "random") =>
        /\ Len(rlast.body) <= 3
        /\ \A m, n \in DOMAIN rlast.body :
             m # n => rlast.body[m].id # rlast.body[n].id
        /\ (\A z \in TaskSize : \E r \in Rows(rtasks) :
                r.status = "pending" /\ r.size = z)
             => \A z \in TaskSize : Cardinality(OfSize(rlast.body, z)) = 1

C6_Witness ==
    /\ rlast.op = "random" /\ Len(rlast.body) = 3
    /\ \A z \in TaskSize : Cardinality(OfSize(rlast.body, z)) = 1
    /\ Cardinality({r \in Rows(rtasks) : r.status = "pending"}) > 3

\* C16: get_random_focus_tasks returns min(3, n) tasks, all of them among
\* the n pending tasks: every pending task when n < 3, none when n = 0, and 3
\* when n >= 3, also when all pending tasks are of one size.
C16_FocusCount ==
    (rlast.op = "random") =>
        /\ Len(rlast.body) = Min2(3, Cardinality(PendingRows(rtasks)))
        /\ Range(rlast.body) \subseteq PendingRows(rtasks)
        /\ Cardinality(PendingRows(rtasks)) < 3
             => Range(rlast.body) = PendingRows(rtasks)

C16_Witness ==
    /\ rlast.op = "random" /\ Len(rlast.body) = 3
    /\ Cardinality(PendingRows(rtasks)) > 3
    /\ \A r \in PendingRows(rtasks) : r.size = "big"

-----------------------------------------------------------------------------
(* SpecBulk: GET /focus-tasks of routes/tasks.py, the pending rows by       *)
(* importance, due date and id, cut to LIMIT rows                           *)

LIMIT == 20

\* Faulty variant of Precedes: NULLS FIRST, the default of DESC, on importance
PrecedesNullsFirst(a, b) ==
    LET imp_first == \/ ~a.importance.present /\ b.importance.present
                     \/ /\ a.importance.present /\ b.importance.present
                        /\ a.importance.value > b.importance.value
        due_first == /\ a.due_date.present
                     /\ ~b.due_date.present \/ a.due_date.value < b.due_date.value
    IN \/ imp_first
       \/ /\ a.importance = b.importance
          /\ due_first \/ (a.due_date = b.due_date /\ a.id < b.id)

\* ORDER BY importance DESC NULLS LAST, due_date ASC NULLS LAST, id ASC:
\* row a comes before row b
Precedes(a, b) ==
    LET imp_first == /\ a.importance.present
                     /\ ~b.importance.present
                          \/ a.importance.value > b.importance.value
        due_first == /\ a.due_date.present
                     /\ ~b.due_date.present \/ a.due_date.value < b.due_date.value
    IN \/ imp_first
       \/ /\ a.importance = b.importance
          /\ due_first \/ (a.due_date = b.due_date /\ a.id < b.id)

RECURSIVE order_by(_)
order_by(S) ==
    IF S = {} THEN <<>>
    ELSE LET m == CHOOSE x \in S : \A y \in S \ {x} : Precedes(x, y)
         IN <<m>> \o order_by(S \ {m})

\* SELECT ... WHERE status = 'pending' ORDER BY ... LIMIT 20
focus_rows(ts) ==
    LET rows == order_by(PendingRows(ts))
    IN SubSeq(rows, 1, Min2(LIMIT, Len(rows)))

routes_get_focus_tasks ==
    /\ rlast' = RoutesResponse("focus", 200, 0, focus_rows(rtasks))
    /\ UNCHANGED <<rtasks, rseq>>

MaxBulkId == LIMIT + 1

VariedIds == 1..MaxVaried

\* Bodies of POST /tasks: any importance and due date for the first rows,
\* one fixed body for the rows after them
BulkIns ==
    IF rseq < MaxVaried
    THEN {[title |-> "t", size |-> "tiny", importance |-> i, due_date |-> d] :
            i \in {Null, NotNull(2)}, d \in {Null, NotNull(1), NotNull(2)}}
    ELSE {[title |-> "t", size |-> "tiny", importance |-> NotNull(1)]}

NextBulk ==
    \/ \E task_in \in BulkIns :
          routes_create_task(task_in, MaxBulkId) /\ UNCHANGED main
    \/ \E i \in VariedIds : routes_complete_task(i) /\ UNCHANGED main
    \/ routes_get_focus_tasks /\ UNCHANGED main

SpecBulk == Init /\ [][NextBulk]_vars

-----------------------------------------------------------------------------
(* Claims on the bulk pending query *)

\* The sort key of a row: importance descending with NULL last, due date
\* ascending with NULL last, id ascending
Key(r) ==
    <<IF r.importance.present THEN 0 - r.importance.value ELSE 1,
      IF r.due_date.present THEN 0 ELSE 1,
      IF r.due_date.present THEN r.due_date.value ELSE 0,
      r.id>>

RECURSIVE LexLess(_, _)
LexLess(k, l) ==
    /\ k # <<>>
    /\ \/ Head(k) < Head(l)
       \/ Head(k) = Head(l) /\ LexLess(Tail(k), Tail(l))

Sorted(s) == \A m, n \in DOMAIN s : m < n => LexLess(Key(s[m]), Key(s[n]))

\* C19 (as claimed): GET /focus-tasks returns the pending tasks, all of them
\* and no other task, by importance descending with NULL last, then due
\* date ascending with NULL last, then id ascending.
C19_AllPendingInOrder ==
    (rlast.op = "focus") =>
        /\ Range(rlast.body) = PendingRows(rtasks)
        /\ Sorted(rlast.body)

\* C19 (amended): GET /focus-tasks returns pending tasks only, in that
\* order, and of the pending tasks the first 20 in that order: all of them
\* when there are at most 20.
C19_First20PendingInOrder ==
    (rlast.op = "focus") =>
        /\ Range(rlast.body) \subseteq PendingRows(rtasks)
        /\ Sorted(rlast.body)
        /\ Len(rlast.body) = Min2(20, Cardinality(PendingRows(rtasks)))
        /\ \A r \in PendingRows(rtasks) \ Range(rlast.body) :
             \A n \in DOMAIN rlast.body : LexLess(Key(rlast.body[n]), Key(r))

C19_Witness ==
    /\ rlast.op = "focus" /\ Len(rlast.body) = 20
    /\ Cardinality(PendingRows(rtasks)) > 20
    /\ rlast.body[1].importance = NotNull(2)
    /\ rlast.body[1].due_date = NotNull(1)
    /\ rlast.body[2].due_date = NotNull(2)
    /\ rlast.body[1].id > rlast.body[2].id

-----------------------------------------------------------------------------
(* Claims on the handlers of main.py *)

IsTaskOp(r) == r.op \in {"complete", "delete"}

NotFound(r) == Response(r.op, 404, r.uid, r.id, <<>>, <<>>)

\* C2: complete(id) and delete(id) by a resolved caller who is not the owner
\* of task id answer 404 with the very response given for an id that does
\* not exist, and leave the task as it was.
C2_NonOwnerNotFound ==
    [][\A i \in DOMAIN tasks :
         (IsTaskOp(last') /\ last'.id = i /\ last'.code # 401
            /\ last'.uid # tasks[i].user_id)
         => /\ last' = NotFound(last')
            /\ i \in DOMAIN tasks'
            /\ tasks'[i] = tasks[i]]_vars

C2_Witness ==
    /\ IsTaskOp(last) /\ last.code = 404
    /\ last.id \in DOMAIN tasks
    /\ last.uid \in DOMAIN users
    /\ tasks[last.id].user_id # last.uid

\* C3: over every step, a task that is completed and still stored stays
\* completed, and a status that changes changes from pending to completed.
C3_StatusOnlyForward ==
    [][\A i \in DOMAIN tasks \cap DOMAIN tasks' :
         /\ tasks[i].status = "completed" => tasks'[i].status = "completed"
         /\ tasks[i].status # tasks'[i].status
              => tasks[i].status = "pending" /\ tasks'[i].status = "completed"]_vars

C3_Witness ==
    /\ last.op = "complete" /\ last.code = 200
    /\ last.pre[1].status = "pending"
    /\ \E i \in DOMAIN tasks : i # last.id /\ tasks[i].status = "completed"

\* C4 (as claimed): once delete(id) has succeeded, every later complete or
\* delete on that id by a resolved caller answers 404.
C4_DeletedStaysNotFound ==
    [][(IsTaskOp(last') /\ last'.id \in hist.deleted /\ last'.code # 401)
         => last'.code = 404]_vars

\* C5 (as claimed): the id given to a new task is larger than every id ever
\* assigned before, so no id is assigned twice.
C5_IdsNeverReused ==
    [][(last'.op = "create" /\ last'.code = 201)
         => \A j \in hist.assigned : last'.id > j]_vars

\* C7 (as claimed): GET /tasks/focus returns at most 3 tasks.
C7_FocusAtMostThree ==
    (last.op = "focus" /\ last.code = 200) => Len(last.body) <= 3

\* C7 (amended): GET /tasks/focus returns every pending task of the resolved
\* caller, each once, however many there are.
C7_FocusReturnsAllPending ==
    (last.op = "focus" /\ last.code = 200) =>
        /\ {last.body[n] : n \in DOMAIN last.body} =
             {r \in Rows(tasks) : r.user_id = last.uid /\ r.status = "pending"}
        /\ \A m, n \in DOMAIN last.body : m # n => last.body[m].id # last.body[n].id

C7_Witness ==
    last.op = "focus" /\ last.code = 200 /\ Len(last.body) > 3

\* C8: the completed listing holds exactly the caller's completed tasks, by
\* updated_at descending; the pending listing holds exactly the caller's
\* pending tasks, by created_at ascending.
C8_ListingsScopedAndSorted ==
    /\ (last.op = "completed" /\ last.code = 200) =>
          /\ {last.body[n] : n \in DOMAIN last.body} =
               {r \in Rows(tasks) : r.user_id = last.uid /\ r.status = "completed"}
          /\ \A m, n \in DOMAIN last.body :
               m < n => /\ last.body[m].updated_at >= last.body[n].updated_at
                        /\ last.body[m].id # last.body[n].id
    /\ (last.op = "focus" /\ last.code = 200) =>
          /\ {last.body[n] : n \in DOMAIN last.body} =
               {r \in Rows(tasks) : r.user_id = last.uid /\ r.status = "pending"}
          /\ \A m, n \in DOMAIN last.body :
               m < n => /\ last.body[m].created_at <= last.body[n].created_at
                        /\ last.body[m].id # last.body[n].id

C8_Witness ==
    /\ last.op = "completed" /\ last.code = 200 /\ Len(last.body) = 2
    /\ last.body[1].updated_at > last.body[2].updated_at
    /\ last.body[1].created_at > last.body[2].created_at
    /\ \E r \in Rows(tasks) : r.user_id # last.uid /\ r.status = "completed"

\* C9: complete(id) by the owner on a completed task answers 200; the task
\* stays completed, its updated_at is stamped anew, and nothing else of it
\* changes.
C9_RecompleteAccepted ==
    \A i \in DOMAIN tasks :
        (last.op = "complete" /\ last.id = i /\ last.uid = tasks[i].user_id
           /\ last.code # 401 /\ tasks[i].status = "completed")
        => /\ last.code = 200
           /\ last.body = <<tasks[i]>>
           /\ tasks[i].updated_at = now
           /\ tasks[i] = [last.pre[1] EXCEPT !.status = "completed",
                                              !.updated_at = now]

C9_Witness ==
    /\ last.op = "complete" /\ last.code = 200
    /\ last.pre[1].status = "completed"
    /\ last.body[1].status = "completed"
    /\ last.body[1].updated_at > last.pre[1].updated_at

\* C10 (as claimed): every stored task has a non-empty title and a size among
\* tiny, medium, big, create having refused every other body.
C10_StoredTasksValid ==
    \A r \in Rows(tasks) : r.title # "" /\ r.size \in Sizes

\* C17: a complete(id) answered 200 changes the status and the updated_at of
\* task id and nothing else: its other fields, every other task and the
\* users table stay as they were, and no task is added or removed. Over
\* every step, a task that stays stored keeps its owner.
C17_CompleteFrame ==
    [][/\ (last'.op = "complete" /\ last'.code = 200) =>
            /\ users' = users
            /\ DOMAIN tasks' = DOMAIN tasks
            /\ \A j \in DOMAIN tasks \ {last'.id} : tasks'[j] = tasks[j]
            /\ \A f \in DOMAIN tasks[last'.id] \ {"status", "updated_at"} :
                  tasks'[last'.id][f] = tasks[last'.id][f]
       /\ \A i \in DOMAIN tasks \cap DOMAIN tasks' :
            tasks'[i].user_id = tasks[i].user_id]_vars

C17_Witness ==
    /\ last.op = "complete" /\ last.code = 200
    /\ last.body[1].created_at < last.body[1].updated_at
    /\ \E j \in DOMAIN tasks : j # last.id /\ tasks[j].user_id # last.uid
    /\ Cardinality(DOMAIN users) = 2

\* C13 (as claimed): every stored task has is_routine true exactly when its
\* recurrence is not none.
C13_RoutineIffRecurrence ==
    \A r \in Rows(tasks) : r.is_routine <=> r.recurrence # None

\* C14 (as claimed): a task just created has status pending whatever the
\* body held, belongs to the resolved caller, and has updated_at equal to
\* created_at.
C14_NewTaskPendingOwnedStamped ==
    (last.op = "create" /\ last.code = 201) =>
        /\ last.body[1].status = "pending"
        /\ last.body[1].user_id = last.uid
        /\ last.body[1].updated_at = last.body[1].created_at

=============================================================================
